---- MODULE Spec2Model ----
(***************************************************************************)
(* Model of merge_dark_mode_css (merge_dark_mode.py): the line-oriented    *)
(* scan that strips dark-mode scope markers and drops base rules that have *)
(* a later dark-scoped override.                                           *)
(*                                                                         *)
(* A line of text is a sequence of tokens; each token is an indivisible    *)
(* piece of text ("body", ".dark-mode", " ", "{", "}", ...).  Substring    *)
(* tests, counts, regex substitution, strip and split are computed on the  *)
(* token sequences the way Python computes them on the characters.  A      *)
(* string is represented by the list of its lines, which is what           *)
(* split('\n') returns: it is never the empty list.                        *)
(***************************************************************************)
EXTENDS Integers, Sequences, FiniteSets

VARIABLES content, lines, i, j, brace_count, selector, rule_lines,
          result_lines, merged_selectors, merged, pc, pass, first

vars == <<content, lines, i, j, brace_count, selector, rule_lines,
          result_lines, merged_selectors, merged, pc, pass, first>>

(***************************************************************************)
(* Bounds and the input lines.                                             *)
(***************************************************************************)
\* the longest input, in lines
MaxLen == 4
\* the longest input of the fair specification, in lines
MaxLiveLen == 3

WS == " "
OB == "{"
CB == "}"
DM == ".dark-mode"
BODY == "body"

\* `.dark-mode .a { q`
DarkA == <<DM, WS, ".a", WS, OB, "q">>
\* `.a { p`
BaseA == <<".a", WS, OB, "p">>
\* `}`
Close == <<CB>>
\* the empty line
Blank == <<>>
\* `.dark-mode .a { q }`
DarkA1 == <<DM, WS, ".a", WS, OB, "q", WS, CB>>
\* `.a { p }`
BaseA1 == <<".a", WS, OB, "p", WS, CB>>
\* `body.dark-mode .ab { q }`
DarkAB1 == <<BODY, DM, WS, ".a", "b", WS, OB, "q", WS, CB>>
\* `/*{}*/`
Comment == <<"/*", OB, CB, "*/">>
\* `x{x{}}`
Two == <<"x", OB, "x", OB, CB, CB>>
\* `x{}x{}x{}x{}`
Four == <<"x", OB, CB, "x", OB, CB, "x", OB, CB, "x", OB, CB>>

LineSet ==
    {DarkA, BaseA, Close, Blank, DarkA1, BaseA1, DarkAB1, Comment, Two, Four}

Inputs == UNION {[1..n -> LineSet] : n \in 1..MaxLen}

LiveInputs == UNION {[1..n -> LineSet] : n \in 1..MaxLiveLen}

(***************************************************************************)
(* Text primitives.                                                        *)
(***************************************************************************)
\* str.count(t)
Count(line, t) == Cardinality({k \in DOMAIN line : line[k] = t})

\* sub in line
Contains(line, sub) ==
    \E k \in 0..(Len(line) - Len(sub)) :
        \A m \in 1..Len(sub) : line[k + m] = sub[m]

\* str.startswith
StartsWith(line, pre) ==
    /\ Len(pre) <= Len(line)
    /\ \A m \in 1..Len(pre) : line[m] = pre[m]

RECURSIVE LStrip(_)
LStrip(line) ==
    IF line # <<>> /\ Head(line) = WS THEN LStrip(Tail(line)) ELSE line

RECURSIVE RStrip(_)
RStrip(line) ==
    IF line # <<>> /\ line[Len(line)] = WS
    THEN RStrip(SubSeq(line, 1, Len(line) - 1))
    ELSE line

\* str.strip()
Strip(line) == RStrip(LStrip(line))

\* re.sub(pre + r'\s+', '', line): every leftmost non-overlapping occurrence
\* of pre followed by one or more blanks is removed, the blanks greedily.
RECURSIVE ReSubWs(_, _)
ReSubWs(pre, line) ==
    IF line = <<>> THEN <<>>
    ELSE IF /\ StartsWith(line, pre)
            /\ Len(line) > Len(pre)
            /\ line[Len(pre) + 1] = WS
         THEN ReSubWs(pre, LStrip(SubSeq(line, Len(pre) + 1, Len(line))))
         ELSE <<Head(line)>> \o ReSubWs(pre, Tail(line))

\* line.split('{')[0]
RECURSIVE SplitHead(_)
SplitHead(line) ==
    IF line = <<>> \/ Head(line) = OB THEN <<>>
    ELSE <<Head(line)>> \o SplitHead(Tail(line))

\* css_content.split('\n') and '\n'.join(result_lines) on the line-list
\* representation of a string: the empty string is one empty line.
Split(s) == s
Join(ls) == IF ls = <<>> THEN <<Blank>> ELSE ls

(***************************************************************************)
(* The conditions and assignments of merge_dark_mode_css.                  *)
(***************************************************************************)
\* line 25
IsDarkLine(line) == Contains(line, <<BODY, DM>>) \/ Contains(line, <<DM>>)

\* lines 27-28
StripMarkers(line) == ReSubWs(<<DM>>, ReSubWs(<<BODY, DM>>, line))

\* lines 33, 37, 71, 73
BraceDelta(line) == Count(line, OB) - Count(line, CB)

\* line 35
CaptureCond(ls, k, bc) ==
    k < Len(ls) /\ (bc > 0 \/ ~Contains(ls[k + 1], <<CB>>))

\* lines 42-43
WithTrailing(rule, ls, k) ==
    IF k < Len(ls) THEN Append(rule, ls[k + 1]) ELSE rule

\* the block put in front of the output instead of behind it
ExtendInFront(res, rule) == rule \o res

\* line 49
Extend(res, rule) == res \o rule

\* line 54
IsRuleOpening(line) ==
    /\ Strip(line) # <<>>
    /\ Contains(line, <<OB>>)
    /\ ~StartsWith(Strip(line), <<"/*">>)

\* line 55
SelectorOf(line) == Strip(SplitHead(line))

\* line 59
OverrideMatch(sel, line) ==
    \/ Contains(line, <<BODY, DM, WS>> \o sel)
    \/ Contains(line, <<DM, WS>> \o sel)

\* line 63
LookaheadLimit(line) == Count(line, OB) > 3

\* line 72
SkipCond(ls, k, bc) == k < Len(ls) /\ bc > 0

\* line 38
CaptureAdvance(k) == k + 1

\* the skip loop without its `i += 1`
SkipNoAdvance(k) == k

\* line 74
SkipAdvance(k) == k + 1

(***************************************************************************)
(* State machine.                                                          *)
(***************************************************************************)
\* lines 14-19: the locals at the start of a call on the string s
Start(s) ==
    /\ lines = Split(s)
    /\ i = 0
    /\ j = 0
    /\ brace_count = 0
    /\ selector = <<>>
    /\ rule_lines = <<>>
    /\ result_lines = <<>>
    /\ merged_selectors = {}
    /\ merged = <<>>
    /\ pc = "main"
    /\ pass = 1
    /\ first = <<>>

Init == content \in Inputs /\ Start(content)

InitLive == content \in LiveInputs /\ Start(content)

\* lines 21-33: the current line carries a dark-mode marker
MainDark ==
    /\ pc = "main"
    /\ i < Len(lines)
    /\ IsDarkLine(lines[i + 1])
    /\ selector' = StripMarkers(lines[i + 1])
    /\ rule_lines' = <<selector'>>
    /\ i' = i + 1
    /\ brace_count' = BraceDelta(lines[i + 1])
    /\ pc' = "capture"
    /\ UNCHANGED <<content, lines, j, result_lines, merged_selectors,
                   merged, pass, first>>

\* lines 35-40: one iteration of the block capture
CaptureStep ==
    /\ pc = "capture"
    /\ CaptureCond(lines, i, brace_count)
    /\ rule_lines' = Append(rule_lines, lines[i + 1])
    /\ brace_count' = brace_count + BraceDelta(lines[i + 1])
    /\ i' = CaptureAdvance(i)
    /\ pc' = IF brace_count' <= 0 THEN "emit" ELSE "capture"
    /\ UNCHANGED <<content, lines, j, selector, result_lines,
                   merged_selectors, merged, pass, first>>

\* line 35: the capture loop's condition is false
CaptureExit ==
    /\ pc = "capture"
    /\ ~CaptureCond(lines, i, brace_count)
    /\ pc' = "emit"
    /\ UNCHANGED <<content, lines, i, j, brace_count, selector, rule_lines,
                   result_lines, merged_selectors, merged, pass, first>>

\* lines 42-50, 79: the block's selector was not emitted before
EmitNew ==
    /\ pc = "emit"
    /\ Strip(selector) \notin merged_selectors
    /\ rule_lines' = WithTrailing(rule_lines, lines, i)
    /\ result_lines' = Extend(result_lines, rule_lines')
    /\ merged_selectors' = merged_selectors \cup {Strip(selector)}
    /\ i' = i + 1
    /\ pc' = "main"
    /\ UNCHANGED <<content, lines, j, brace_count, selector, merged,
                   pass, first>>

\* lines 42-47, 79: the block's selector was emitted before
EmitDup ==
    /\ pc = "emit"
    /\ Strip(selector) \in merged_selectors
    /\ rule_lines' = WithTrailing(rule_lines, lines, i)
    /\ i' = i + 1
    /\ pc' = "main"
    /\ UNCHANGED <<content, lines, j, brace_count, selector, result_lines,
                   merged_selectors, merged, pass, first>>

\* lines 54-58: an unscoped rule-opening line starts the lookahead
MainBase ==
    /\ pc = "main"
    /\ i < Len(lines)
    /\ ~IsDarkLine(lines[i + 1])
    /\ IsRuleOpening(lines[i + 1])
    /\ selector' = SelectorOf(lines[i + 1])
    /\ j' = i + 1
    /\ pc' = "lookahead"
    /\ UNCHANGED <<content, lines, i, brace_count, rule_lines, result_lines,
                   merged_selectors, merged, pass, first>>

\* lines 59-61, 68-71: the lookahead finds an override
LookaheadMatch ==
    /\ pc = "lookahead"
    /\ j < Len(lines)
    /\ OverrideMatch(selector, lines[j + 1])
    /\ brace_count' = BraceDelta(lines[i + 1])
    /\ i' = i + 1
    /\ pc' = "skip"
    /\ UNCHANGED <<content, lines, j, selector, rule_lines, result_lines,
                   merged_selectors, merged, pass, first>>

\* lines 63-64, 66-67, 79: the lookahead gives up, the line is kept
LookaheadStop ==
    /\ pc = "lookahead"
    /\ j < Len(lines)
    /\ ~OverrideMatch(selector, lines[j + 1])
    /\ LookaheadLimit(lines[j + 1])
    /\ result_lines' = Append(result_lines, lines[i + 1])
    /\ i' = i + 1
    /\ pc' = "main"
    /\ UNCHANGED <<content, lines, j, brace_count, selector, rule_lines,
                   merged_selectors, merged, pass, first>>

\* line 58: next lookahead line
LookaheadNext ==
    /\ pc = "lookahead"
    /\ j < Len(lines)
    /\ ~OverrideMatch(selector, lines[j + 1])
    /\ ~LookaheadLimit(lines[j + 1])
    /\ j' = j + 1
    /\ UNCHANGED <<content, lines, i, brace_count, selector, rule_lines,
                   result_lines, merged_selectors, merged, pc, pass, first>>

\* lines 58, 66-67, 79: the lookahead reaches the end, the line is kept
LookaheadEnd ==
    /\ pc = "lookahead"
    /\ j >= Len(lines)
    /\ result_lines' = Append(result_lines, lines[i + 1])
    /\ i' = i + 1
    /\ pc' = "main"
    /\ UNCHANGED <<content, lines, j, brace_count, selector, rule_lines,
                   merged_selectors, merged, pass, first>>

\* lines 72-74: one iteration of the base-block skip
SkipStep ==
    /\ pc = "skip"
    /\ SkipCond(lines, i, brace_count)
    /\ brace_count' = brace_count + BraceDelta(lines[i + 1])
    /\ i' = SkipAdvance(i)
    /\ UNCHANGED <<content, lines, j, selector, rule_lines, result_lines,
                   merged_selectors, merged, pc, pass, first>>

\* lines 72, 75: the skip loop ends, continue the main scan
SkipExit ==
    /\ pc = "skip"
    /\ ~SkipCond(lines, i, brace_count)
    /\ pc' = "main"
    /\ UNCHANGED <<content, lines, i, j, brace_count, selector, rule_lines,
                   result_lines, merged_selectors, merged, pass, first>>

\* lines 76-79: any other line passes through
MainOther ==
    /\ pc = "main"
    /\ i < Len(lines)
    /\ ~IsDarkLine(lines[i + 1])
    /\ ~IsRuleOpening(lines[i + 1])
    /\ result_lines' = Append(result_lines, lines[i + 1])
    /\ i' = i + 1
    /\ UNCHANGED <<content, lines, j, brace_count, selector, rule_lines,
                   merged_selectors, merged, pc, pass, first>>

\* lines 21, 81: end of input
Return ==
    /\ pc = "main"
    /\ i >= Len(lines)
    /\ merged' = Join(result_lines)
    /\ pc' = "done"
    /\ UNCHANGED <<content, lines, i, j, brace_count, selector, rule_lines,
                   result_lines, merged_selectors, pass, first>>

\* the resolver is run again on its own output
Rerun ==
    /\ pc = "done"
    /\ pass = 1
    /\ first' = merged
    /\ lines' = Split(merged)
    /\ i' = 0
    /\ j' = 0
    /\ brace_count' = 0
    /\ selector' = <<>>
    /\ rule_lines' = <<>>
    /\ result_lines' = <<>>
    /\ merged_selectors' = {}
    /\ merged' = <<>>
    /\ pc' = "main"
    /\ pass' = 2
    /\ UNCHANGED content

Next ==
    \/ MainDark
    \/ CaptureStep
    \/ CaptureExit
    \/ EmitNew
    \/ EmitDup
    \/ MainBase
    \/ LookaheadMatch
    \/ LookaheadStop
    \/ LookaheadNext
    \/ LookaheadEnd
    \/ SkipStep
    \/ SkipExit
    \/ MainOther
    \/ Return
    \/ Rerun

Spec == Init /\ [][Next]_vars

\* the interpreter always takes the next step of a running call
FairSpec == InitLive /\ [][Next]_vars /\ WF_vars(Next)

(***************************************************************************)
(* Vocabulary of the properties.                                           *)
(***************************************************************************)
\* the first call has returned
Finished == pc = "done" /\ pass = 1

\* the second call, on the first call's output, has returned
FinishedAgain == pc = "done" /\ pass = 2

\* a dark-mode scope marker: `body.dark-mode ` or `.dark-mode `
HasMarker(line) ==
    Contains(line, <<BODY, DM, WS>>) \/ Contains(line, <<DM, WS>>)

Selectors == {<<".a">>, <<".a", "b">>}

\* line k (from 1) of ls opens an unscoped rule for selector s
BaseRuleAt(ls, k, s) ==
    /\ ~IsDarkLine(ls[k])
    /\ IsRuleOpening(ls[k])
    /\ SelectorOf(ls[k]) = s

\* line k (from 1) of ls opens a dark-scoped rule for selector s
DarkRuleAt(ls, k, s) ==
    /\ HasMarker(ls[k])
    /\ Contains(ls[k], <<OB>>)
    /\ SelectorOf(StripMarkers(ls[k])) = s

\* line opens a rule, scoped or not, for selector s
OpensRuleFor(line, s) ==
    /\ IsRuleOpening(line)
    /\ SelectorOf(StripMarkers(line)) = s

Occurs(ls, line) == Cardinality({k \in DOMAIN ls : ls[k] = line})

RECURSIVE BracesIn(_, _, _)
\* the number of `{` on lines a..b (from 1) of ls
BracesIn(ls, a, b) ==
    IF a > b THEN 0 ELSE Count(ls[a], OB) + BracesIn(ls, a + 1, b)

RECURSIVE Depth(_, _)
\* the brace depth after the first k lines of ls
Depth(ls, k) == IF k = 0 THEN 0 ELSE Depth(ls, k - 1) + BraceDelta(ls[k])

\* a flat stylesheet: every rule is closed, nothing closes twice, and no
\* line with a `{` lies inside the block of another rule
WellFormed(ls) ==
    /\ \A k \in 0..Len(ls) : Depth(ls, k) \in {0, 1}
    /\ \A k \in DOMAIN ls : Contains(ls[k], <<OB>>) => Depth(ls, k - 1) = 0
    /\ Depth(ls, Len(ls)) = 0

RECURSIVE Embeds(_, _)
\* out is, line by line and in order, a selection of the lines of src, each
\* verbatim or with its markers stripped
Embeds(out, src) ==
    IF out = <<>> THEN TRUE
    ELSE IF src = <<>> THEN FALSE
    ELSE IF Head(out) \in {Head(src), StripMarkers(Head(src))}
         THEN Embeds(Tail(out), Tail(src))
         ELSE Embeds(out, Tail(src))

(***************************************************************************)
(* C1: no line of the output contains a dark-mode scope marker.            *)
(* Stated for flat, well-formed stylesheets; it fails there already.       *)
(***************************************************************************)
C1_NoMarkerInOutput ==
    (Finished /\ WellFormed(content)) =>
        \A k \in DOMAIN merged : ~HasMarker(merged[k])

(***************************************************************************)
(* C2: a base rule for S followed, within the lookahead, by a dark-scoped  *)
(* rule for S is absent from the output, and the marker-stripped override  *)
(* is in the output exactly once.                                          *)
(***************************************************************************)
C2_BaseReplacedByOverride ==
    (Finished /\ WellFormed(content)) =>
        \A s \in Selectors : \A b, d \in DOMAIN content :
            ( /\ b < d
              /\ BaseRuleAt(content, b, s)
              /\ DarkRuleAt(content, d, s)
              /\ BracesIn(content, b + 1, d - 1) < 4 )
            => /\ Occurs(merged, content[b]) = 0
               /\ Occurs(merged, StripMarkers(content[d])) = 1

(***************************************************************************)
(* C3: the lookahead stops once the scanned lines hold 4 or more `{` in    *)
(* total, so a base rule for S whose only override lies after that point   *)
(* is in the output together with the marker-stripped override.            *)
(***************************************************************************)
C3_OverrideBeyondLookaheadKeepsBoth ==
    (Finished /\ WellFormed(content)) =>
        \A s \in Selectors : \A b, d \in DOMAIN content :
            ( /\ b < d
              /\ BaseRuleAt(content, b, s)
              /\ DarkRuleAt(content, d, s)
              /\ BracesIn(content, b + 1, d - 1) >= 4
              /\ \A m \in (b + 1)..(d - 1) : ~OverrideMatch(s, content[m]) )
            => /\ Occurs(merged, content[b]) >= 1
               /\ Occurs(merged, StripMarkers(content[d])) >= 1

(***************************************************************************)
(* C4: a dark-scoped rule for S in an input with no base rule for S gives  *)
(* exactly one rule for S in the output, and its opening line carries no   *)
(* marker.                                                                 *)
(***************************************************************************)
C4_DarkOnlyRuleEmittedOnce ==
    (Finished /\ WellFormed(content)) =>
        \A s \in Selectors :
            ( /\ \E d \in DOMAIN content : DarkRuleAt(content, d, s)
              /\ \A b \in DOMAIN content : ~BaseRuleAt(content, b, s) )
            => /\ Cardinality({k \in DOMAIN merged :
                                  OpensRuleFor(merged[k], s)}) = 1
               /\ \A k \in DOMAIN merged :
                      OpensRuleFor(merged[k], s) => ~HasMarker(merged[k])

(***************************************************************************)
(* C5: the resolver is idempotent: run on its own output it returns that   *)
(* output unchanged.                                                       *)
(***************************************************************************)
C5_Idempotent ==
    (FinishedAgain /\ WellFormed(content)) => merged = first

(***************************************************************************)
(* C6: of several dark-scoped rules for one selector only the first is in  *)
(* the output, whatever else is on the opening lines.                      *)
(***************************************************************************)
C6_FirstDarkRuleWins ==
    (Finished /\ WellFormed(content)) =>
        \A s \in Selectors :
            ( /\ \E d, e \in DOMAIN content :
                    d < e /\ DarkRuleAt(content, d, s)
                          /\ DarkRuleAt(content, e, s)
              /\ \A b \in DOMAIN content : ~BaseRuleAt(content, b, s) )
            => Cardinality({k \in DOMAIN merged :
                               OpensRuleFor(merged[k], s)}) = 1

(***************************************************************************)
(* C7: every call terminates, also on unbalanced braces: the capture loop  *)
(* and the skip loop advance the cursor at every iteration, the lookahead  *)
(* its own index, and the scan reaches its end.                            *)
(***************************************************************************)
C7_Terminates ==
    /\ [][ /\ (pc = "main" /\ pc' = "main") => i' > i
           /\ (pc = "capture" /\ rule_lines' # rule_lines) => i' > i
           /\ (pc = "skip" /\ pc' = "skip") => i' > i
           /\ (pc = "lookahead" /\ pc' = "lookahead") => j' > j
           /\ i' <= Len(lines') + 1 ]_vars
    /\ <>(pc = "done")

\* the capture has run into the end of the input with its block still open
C7_Witness ==
    /\ pc = "emit"
    /\ brace_count > 0
    /\ i >= Len(lines)

C9_OrderPreserved == Embeds(result_lines, lines)

\* a finished run that dropped a line, stripped a line and kept a line
C9_Witness ==
    /\ Finished
    /\ Len(result_lines) < Len(lines)
    /\ \E k \in DOMAIN result_lines :
           \A m \in DOMAIN lines : result_lines[k] # lines[m]
    /\ \E k \in DOMAIN result_lines :
           \E m \in DOMAIN lines : result_lines[k] = lines[m]

(***************************************************************************)
(* C10: no selector loses all its rules: when the base rule for S is not   *)
(* in the output, the output has a marker-free rule for exactly S.         *)
(***************************************************************************)
C10_NoSelectorLost ==
    (Finished /\ WellFormed(content)) =>
        \A s \in Selectors : \A b \in DOMAIN content :
            ( /\ BaseRuleAt(content, b, s)
              /\ Occurs(merged, content[b]) = 0 )
            => \E k \in DOMAIN merged :
                   /\ ~HasMarker(merged[k])
                   /\ OpensRuleFor(merged[k], s)

====
